---- MODULE Spec2Model ----
(***************************************************************************)
(* Truck selection, trip planning and the trip lifecycle of the logistics  *)
(* dispatch agent (agent/agent_loop.py over database/models.py), with the  *)
(* manager's load approval (whatsapp/business_notifications.py).           *)
(*                                                                         *)
(* Numbers.  Distances are kept in tenths of a km (trip.distance_km is     *)
(* rounded to one decimal), mileages in tenths of a km/l, fuel_percent in  *)
(* units of 1/FuelDen percent and scores in units of 1/ScoreOne, so that   *)
(* every quantity the code computes in floating point is an exact integer  *)
(* here.  Python's None is "None" for strings and ids and 0 for            *)
(* timestamps (time.time() is never 0).                                    *)
(***************************************************************************)
EXTENDS Integers, Sequences, FiniteSets, TLC

VARIABLES trucks, trips, loads, last_assigned_driver, now, ret, requests

vars == <<trucks, trips, loads, last_assigned_driver, now, ret, requests>>

None == "None"

\* what time.strftime('%Y-%m-%dT%H:%M:%S') returns: some timestamp
Timestamp == "timestamp"

-----------------------------------------------------------------------------
(* Bounds of the model *)

MaxTrips == 2
MaxLoadTrips == 1
MaxLoads == 1
MaxChatTrips == 2
MaxCreated == 3
MaxRaceTrips == 2
MaxMatchTrips == 1
MaxMatchLoads == 4
MaxSelectTrips == 2
MaxConfidenceTrips == 1
MaxApproveTrips == 1
MaxApproveLoads == 2
MaxLiveTrips == 2
MaxTicks == 1

-----------------------------------------------------------------------------
(* Program constants *)

GateThreshold == 5000       \* 0.5 in 1/10000
PenaltyCap == 3000          \* 0.3 in 1/10000
PenaltyPerTrip == 1000      \* 0.1 in 1/10000
RecencyBonus == 1500        \* 0.15 in 1/10000
RecencyWindow == 86400      \* seconds
ProgressStep == 10
ProgressCap == 95
TankLitres == 400
LongTripKm == 5000          \* 500 km in tenths
VeryLongTripKm == 8000      \* 800 km in tenths
RevenuePaisePerKg == 50     \* 0.5 rupees
MaxOpportunities == 3
FuelPricePerLiter == 95     \* rupees
TollTenthsPerKm == 15       \* 1.5 rupees
RevenuePerKm == 30          \* rupees
TankCapacity == 400         \* litres
ShortRouteKm == 3000        \* 300 km in tenths
HighLoadPercent == 85
LowFuelPercent == 20
TrafficTenths == 9          \* traffic_score 0.9

-----------------------------------------------------------------------------
(* Inputs of the model *)

Phone1 == "+919876543210"
Phone2 == "+919876543211"
Phones == {Phone1, Phone2}
Phone3 == "+919876543212"

\* where the drivers report to be
Locations == {"Delhi"}

\* the loads customers ask for: weight, pickup, dropoff
LoadWeights == {4000}
LoadRoutes == {<<"Delhi", "Mumbai">>, <<"Mumbai", "Delhi">>}

\* the (origin, destination) pairs the manager asks for
Routes == {<<"Mumbai", "Delhi">>, <<"Delhi", "Mumbai">>}

\* what the route service answers when it answers, in tenths of a km
RouteDistances == {11200}

\* time.time() when the process starts
StartTime == 1000000

Min(a, b) == IF a <= b THEN a ELSE b
Max(a, b) == IF a >= b THEN a ELSE b

\* str.lower() on the city names of the model
Lower(s) ==
  CASE s = "Mumbai" -> "mumbai"
    [] s = "Delhi" -> "delhi"
    [] s = "Pune" -> "pune"
    [] s = "Navi Mumbai" -> "navi mumbai"
    [] s = "DELHI" -> "delhi"
    [] s = "Chennai" -> "chennai"
    [] s = "Bangalore" -> "bangalore"
    [] s = "Kochi" -> "kochi"
    [] OTHER -> s

\* hub in s, for a lower-case s
Contains(s, hub) == s = hub \/ (s = "navi mumbai" /\ hub = "mumbai")

\* fuel_percent is kept in units of 1/FuelDen percent: FuelDen is a common
\* multiple of 4 * mileage (in tenths) for the mileages 5.6 and 6.2, so that
\* the consumption distance / mileage * 100 / 400 is a whole number
FuelDen == 4 * 56 * 31
ScoreOne == 10000 * FuelDen

Truck(id, phone, loc, cond, mileage, cap, load, fuel) ==
  [id |-> id, driver_phone |-> phone, location |-> loc, condition |-> cond,
   mileage_kmpl |-> mileage, capacity_kg |-> cap, current_load_kg |-> load,
   fuel_percent |-> fuel * FuelDen, status |-> "available",
   current_trip_id |-> None, last_trip_time |-> 0]

\* two trucks of two drivers that differ in fuel by what one long trip
\* burns, the first part loaded
TwinFleet ==
  << Truck("TRK001", Phone1, "Delhi", "Good", 56, 10000, 2000, 60),
     Truck("TRK002", Phone2, "Pune", "Good", 56, 10000, 0, 10) >>


-----------------------------------------------------------------------------
(* database/models.py *)

TruckIdx == 1..Len(trucks)

LastTrip(tr) == tr[Len(tr)]

RECURSIVE FirstWith(_, _, _)
\* position of the first record of s from i on whose id is id, 0 if none
FirstWith(s, id, i) ==
  IF i > Len(s) THEN 0
  ELSE IF s[i].id = id THEN i ELSE FirstWith(s, id, i + 1)

\* a number printed without the zeros in front
Format03d_Unpadded(n) == ToString(n)

\* f"{n:03d}": at least three digits, zeros in front
Format03d(n) ==
  IF n < 10 THEN "00" \o ToString(n)
  ELSE IF n < 100 THEN "0" \o ToString(n) ELSE ToString(n)

\* the id create_trip gives the n-th trip of the store
TripId(n) == "TRIP" \o Format03d(n)

\* a lookup among the active trips only
get_trip_by_id_Active(trip_id) ==
  IF \E i \in 1..Len(trips) :
       trips[i].id = trip_id /\ trips[i].status # "completed"
  THEN FirstWith(trips, trip_id, 1) ELSE 0

\* a lookup that falls back to the newest trip
get_trip_by_id_Latest(trip_id) ==
  IF FirstWith(trips, trip_id, 1) = 0 THEN Len(trips)
  ELSE FirstWith(trips, trip_id, 1)

\* the store tr with the draft trip_data appended under a new id, pending
create_trip(tr, draft) ==
  Append(tr, [id |-> TripId(Len(tr) + 1), status |-> "pending"] @@ draft)

get_trip_by_id(trip_id) == FirstWith(trips, trip_id, 1)

\* the first minimum of s under the key k, then the rest: a stable sort
RECURSIVE StableSort(_, _)
StableSort(s, k) ==
  IF s = <<>> THEN <<>>
  ELSE LET m == CHOOSE p \in 1..Len(s) :
                  /\ \A q \in 1..Len(s) : k[s[p]] <= k[s[q]]
                  /\ \A q \in 1..(p - 1) : k[s[q]] > k[s[p]]
           rest == [j \in 1..(Len(s) - 1) |-> IF j < m THEN s[j] ELSE s[j + 1]]
       IN <<s[m]>> \o StableSort(rest, k)

\* a listing that takes an assigned truck for a free one
IsAvailable_Assigned(truck) == truck.status # "in_transit"

\* a listing that goes by the current trip instead of the status
IsAvailable_NoCurrentTrip(truck) == truck.current_trip_id = None

IsAvailable(truck) == truck.status = "available"

get_available_trucks(origin) ==
  LET idx == [i \in TruckIdx |-> i]
      available == SelectSeq(idx, LAMBDA i : IsAvailable(trucks[i]))
      near == [i \in TruckIdx |->
                 IF Lower(trucks[i].location) = Lower(origin) THEN 0 ELSE 1]
  IN IF origin # "" THEN StableSort(available, near) ELSE available

\* an update without the test on the id: every truck gets the status
update_truck_status_All(ts, truck_id, status, location) ==
  [i \in 1..Len(ts) |->
     [ts[i] EXCEPT !.status = status,
                   !.location = IF location # "" THEN location ELSE @]]

\* an update that takes the location for the status
update_truck_status_Swapped(ts, truck_id, status, location) ==
  LET i == FirstWith(ts, truck_id, 1)
  IN IF i = 0 THEN ts
     ELSE [ts EXCEPT ![i] =
             [@ EXCEPT !.status = IF location # "" THEN location ELSE status]]

update_truck_status(ts, truck_id, status, location) ==
  LET i == FirstWith(ts, truck_id, 1)
  IN IF i = 0 THEN ts
     ELSE [ts EXCEPT ![i] =
             [@ EXCEPT !.status = status,
                       !.location = IF location # "" THEN location ELSE @]]

\* an update without the test on the id: every trip gets the status
update_trip_status_Every(tr, trip_id, status, location) ==
  [i \in 1..Len(tr) |->
     [tr[i] EXCEPT !.status = status,
                   !.current_location = IF location # "" THEN location ELSE @]]

\* an update that drops the location
update_trip_status_NoLocation(tr, trip_id, status, location) ==
  LET i == FirstWith(tr, trip_id, 1)
  IN IF i = 0 THEN tr ELSE [tr EXCEPT ![i].status = status]

update_trip_status(tr, trip_id, status, location) ==
  LET i == FirstWith(tr, trip_id, 1)
  IN IF i = 0 THEN tr
     ELSE [tr EXCEPT ![i] =
             [@ EXCEPT !.status = status,
                       !.current_location =
                          IF location # "" THEN location ELSE @]]

ActiveStatuses == {"pending", "accepted", "in_progress"}

get_active_trips ==
  SelectSeq(trips, LAMBDA t : t.status \in ActiveStatuses)

-----------------------------------------------------------------------------
(* agent/agent_loop.py: selection *)

RECURSIVE CountPhone(_, _)
CountPhone(s, phone) ==
  IF s = <<>> THEN 0
  ELSE (IF Head(s).driver_phone = phone THEN 1 ELSE 0)
       + CountPhone(Tail(s), phone)

\* a workload that counts the trips without a phone as well
Workload_Unfiltered(phone) == CountPhone(get_active_trips, phone)

\* get_driver_workload().get(phone, 0): trips without a phone are not counted
Workload(phone) ==
  IF phone = None \/ phone = "" THEN 0 ELSE CountPhone(get_active_trips, phone)

\* a rotation that takes the first available truck
rotate_driver_selection_First(available, last) ==
  [selected |-> available[1], available |-> available,
   token |-> trucks[available[1]].driver_phone]

rotate_driver_selection(available, last) ==
  LET wl == [i \in TruckIdx |-> Workload(trucks[i].driver_phone)]
      not_last == SelectSeq(available,
                            LAMBDA i : trucks[i].driver_phone # last)
      sorted == StableSort(IF not_last # <<>> THEN not_last ELSE available, wl)
  IN [selected |-> sorted[1],
      available |-> IF not_last # <<>> THEN available ELSE sorted,
      token |-> trucks[sorted[1]].driver_phone]

\* a score that does not look at where the truck stands
calculate_truck_score_NoLocation(truck, origin, distance_km) ==
  LET cond == IF truck.condition = "Excellent" THEN 2000
              ELSE IF truck.condition = "Good" THEN 1500 ELSE 1000
      mileage == IF distance_km > LongTripKm
                 THEN truck.mileage_kmpl * 20 ELSE truck.mileage_kmpl * 10
  IN (cond + mileage) * FuelDen + truck.fuel_percent * 10

\* a score that falls with the fuel
calculate_truck_score_FuelPenalised(truck, origin, distance_km) ==
  LET cond == IF truck.condition = "Excellent" THEN 2000
              ELSE IF truck.condition = "Good" THEN 1500 ELSE 1000
  IN (cond + 1000) * FuelDen - truck.fuel_percent * 10

\* a score that counts the mileage of every trip as that of a long one
calculate_truck_score_LongRate(truck, origin, distance_km) ==
  LET place == IF Lower(truck.location) = Lower(origin) THEN 4000 ELSE 0
      cond == IF truck.condition = "Excellent" THEN 2000
              ELSE IF truck.condition = "Good" THEN 1500 ELSE 1000
  IN (place + cond + truck.mileage_kmpl * 20) * FuelDen
     + truck.fuel_percent * 10

calculate_truck_score(truck, origin, distance_km) ==
  LET loc == Lower(truck.location)
      org == Lower(origin)
      place == IF loc = org THEN 4000
               ELSE IF Contains(org, "mumbai") /\ Contains(loc, "mumbai")
                 THEN 3000
               ELSE IF Contains(org, "pune") /\ Contains(loc, "pune")
                 THEN 3000
               ELSE 0
      cond == IF truck.condition = "Excellent" THEN 2000
              ELSE IF truck.condition = "Good" THEN 1500 ELSE 1000
      fuel == truck.fuel_percent * 10
      mileage == IF distance_km > LongTripKm
                 THEN truck.mileage_kmpl * 20 ELSE truck.mileage_kmpl * 10
      capacity == IF distance_km > VeryLongTripKm
                  THEN Min(1000 * FuelDen, (truck.capacity_kg * FuelDen) \div 20)
                  ELSE 0
  IN Min(ScoreOne, (place + cond + mileage) * FuelDen + fuel + capacity)

\* no penalty for the trips a driver has
WorkloadPenalty_None(phone) == 0

WorkloadPenalty(phone) ==
  Min(PenaltyCap, Workload(phone) * PenaltyPerTrip) * FuelDen

IdleBonus(truck) ==
  IF truck.last_trip_time # 0 /\ now - truck.last_trip_time > RecencyWindow
  THEN RecencyBonus * FuelDen ELSE 0

AdjustedScore(truck, origin, distance_km) ==
  calculate_truck_score(truck, origin, distance_km)
  - WorkloadPenalty(truck.driver_phone) + IdleBonus(truck)

\* the first truck of the list with the highest adjusted score
select_best_truck_by_scoring(available, origin, distance_km) ==
  LET score == [i \in TruckIdx |-> AdjustedScore(trucks[i], origin, distance_km)]
      p == CHOOSE p \in 1..Len(available) :
             /\ \A q \in 1..Len(available) :
                  score[available[p]] >= score[available[q]]
             /\ \A q \in 1..(p - 1) : score[available[q]] < score[available[p]]
  IN available[p]

PassesGate(score) == score >= (GateThreshold * FuelDen)

\* a gate on the score after the workload penalty and the idle bonus
GateScore_Adjusted(truck, origin, distance_km) ==
  AdjustedScore(truck, origin, distance_km)

\* truck_score, the score the gate tests
GateScore(truck, origin, distance_km) ==
  calculate_truck_score(truck, origin, distance_km)


\* the selected truck (its position in trucks, 0 for none) and the token
select_best_truck(origin, destination, distance_km) ==
  LET available == get_available_trucks(origin)
  IN IF available = <<>>
     THEN [truck |-> 0, token |-> last_assigned_driver]
     ELSE LET rot == rotate_driver_selection(available, last_assigned_driver)
          IN IF PassesGate(GateScore(trucks[rot.selected], origin,
                                     distance_km))
             THEN [truck |-> rot.selected, token |-> rot.token]
             ELSE [truck |-> select_best_truck_by_scoring(rot.available,
                                                          origin, distance_km),
                   token |-> rot.token]

-----------------------------------------------------------------------------
(* agent/agent_loop.py: planning *)

Ret(op, ok, msg) == [op |-> op, ok |-> ok, msg |-> msg]

\* a route error that is swallowed
RouteFails_Swallowed(route_ok) == FALSE

RouteFails(route_ok) == ~route_ok

AvailableCapacity(capacity, current_load) == capacity - current_load

\* amounts of money are fractions num / den with den > 0, as the floats of
\* the code are before round()
Frac(num, den) == [num |-> num, den |-> den]
FracAdd(a, b) == Frac(a.num * b.den + b.num * a.den, a.den * b.den)
FracSub(a, b) == Frac(a.num * b.den - b.num * a.den, a.den * b.den)

\* round(x, 0): to the nearest whole number, halves to the even one
RoundNat(num, den) ==
  LET q == num \div den
      r == num % den
  IN IF 2 * r < den THEN q
     ELSE IF 2 * r > den THEN q + 1
     ELSE IF q % 2 = 0 THEN q ELSE q + 1

Round(a) == IF a.num >= 0 THEN RoundNat(a.num, a.den)
            ELSE 0 - RoundNat(0 - a.num, a.den)

\* world/route_eval.py, for a distance in tenths of a km and a mileage in
\* tenths of a km per litre
estimate_fuel(distance_km, mileage) == Frac(distance_km, mileage)

\* a cost that takes the litres for the rupees
estimate_fuel_cost_Litres(distance_km, mileage) ==
  estimate_fuel(distance_km, mileage)

estimate_fuel_cost(distance_km, mileage) ==
  LET fuel_liters == estimate_fuel(distance_km, mileage)
  IN Frac(fuel_liters.num * FuelPricePerLiter, fuel_liters.den)

calculate_toll_cost(distance_km) == Frac(distance_km * TollTenthsPerKm, 100)

\* distance_km * 30: whole rupees for a distance in tenths of a km
Revenue(distance_km) == Frac((distance_km * RevenuePerKm) \div 10, 1)

FracMul(a, b) == Frac(a.num * b.num, a.den * b.den)

\* agent/confidence.py: the score in hundredths, as round(score, 2) leaves it
compute_confidence(load_percent, fuel_ok, traffic_score) ==
  LET loaded == IF load_percent.num > HighLoadPercent * load_percent.den
                THEN Frac(8, 10) ELSE Frac(1, 1)
      fuelled == IF ~fuel_ok THEN FracMul(loaded, Frac(6, 10)) ELSE loaded
      score == FracMul(fuelled, traffic_score)
  IN Round(Frac(score.num * 100, score.den))

\* (current_load / capacity) * 100 if capacity > 0 else 0
LoadPercent(current_load, capacity) ==
  IF capacity > 0 THEN Frac(current_load * 100, capacity) ELSE Frac(0, 1)

\* a test that takes 20 percent of fuel for enough
FuelOk_From20(fuel_percent) == fuel_percent >= LowFuelPercent * FuelDen

\* truck.get('fuel_percent', 0) > 20
FuelOk(fuel_percent) == fuel_percent > LowFuelPercent * FuelDen

\* the table route_cities of plan_fuel_stops, by lower-case pair
RouteKeys ==
  { <<"mumbai", "delhi">>, <<"mumbai", "bangalore">>, <<"delhi", "mumbai">>,
    <<"bangalore", "chennai">>, <<"pune", "nagpur">>,
    <<"delhi", "chandigarh">>, <<"chennai", "bangalore">>,
    <<"kolkata", "delhi">>, <<"hyderabad", "bangalore">>,
    <<"ahmedabad", "mumbai">> }

route_cities(key) ==
  CASE key = <<"mumbai", "delhi">> ->
         <<"Surat", "Vadodara", "Udaipur", "Jaipur">>
    [] key = <<"mumbai", "bangalore">> -> <<"Pune", "Kolhapur", "Belgaum">>
    [] key = <<"delhi", "mumbai">> ->
         <<"Jaipur", "Udaipur", "Vadodara", "Surat">>
    [] key = <<"bangalore", "chennai">> -> <<"Vellore">>
    [] key = <<"pune", "nagpur">> -> <<"Aurangabad", "Jalna">>
    [] key = <<"delhi", "chandigarh">> -> <<"Panipat", "Ambala">>
    [] key = <<"chennai", "bangalore">> -> <<"Vellore">>
    [] key = <<"kolkata", "delhi">> -> <<"Varanasi", "Allahabad", "Kanpur">>
    [] key = <<"hyderabad", "bangalore">> -> <<"Kurnool", "Anantapur">>
    [] key = <<"ahmedabad", "mumbai">> -> <<"Vapi", "Valsad", "Surat">>
    [] OTHER -> <<>>

\* route_cities.get(route_key, route_cities.get(reverse_key, []))
KnownCities(origin, destination) ==
  LET route_key == <<Lower(origin), Lower(destination)>>
      reverse_key == <<Lower(destination), Lower(origin)>>
  IN IF route_key \in RouteKeys THEN route_cities(route_key)
     ELSE route_cities(reverse_key)

\* f"{n}%"
Percent(n) == ToString(n) \o "%"

GenericStop ==
  [city |-> "Mid-route", estimated_fuel |-> "45%",
   reason |-> "Regular refueling stop"]

\* a test that plans stops for a route of exactly 300 km
LongRoute_From300(distance_km) == distance_km >= ShortRouteKm

\* distance_km > 300
LongRoute(distance_km) == distance_km > ShortRouteKm

\* tank_capacity * mileage_kmpl * 0.6, in whole km
optimal_stop_distance(mileage_kmpl) ==
  (TankCapacity * mileage_kmpl * 6) \div 100

\* the fuel left at a stop, by the figures of the stops without a city
CityStopFuel_Generic(i, num_stops) ==
  Max(25, 100 - i * (70 \div (num_stops + 1)))

\* max(20, 100 - (i * (80 // (num_stops + 1))))
CityStopFuel(i, num_stops) == Max(20, 100 - i * (80 \div (num_stops + 1)))

plan_fuel_stops(origin, destination, distance_km, mileage_kmpl) ==
  LET cities == KnownCities(origin, destination)
      optimal == optimal_stop_distance(mileage_kmpl)
      num_stops == Max(1, distance_km \div (10 * optimal))
      step == Len(cities) \div (num_stops + 1)
      stops ==
        IF cities # <<>> /\ LongRoute(distance_km)
        THEN IF Len(cities) >= num_stops
             THEN [i \in 1..num_stops |->
                     [city |-> cities[Min(i * step, Len(cities) - 1) + 1],
                      estimated_fuel |-> Percent(CityStopFuel(i, num_stops)),
                      reason |-> "Refuel before reaching " \o destination]]
             ELSE [i \in 1..num_stops |->
                     [city |-> "Stop " \o ToString(i),
                      estimated_fuel |->
                        Percent(Max(25, 100 - i * (70 \div (num_stops + 1)))),
                      reason |-> "Approximately " \o ToString(i * optimal)
                                   \o "km from start"]]
        ELSE <<>>
  IN IF stops # <<>> THEN stops ELSE <<GenericStop>>

\* the draft plan_trip_with_truck hands to create_trip, with the amounts in
\* whole rupees; current_location, progress_percent and end_time are the
\* defaults later reads find
trip_data(origin, destination, truck, distance_km) ==
  LET fuel_cost == estimate_fuel_cost(distance_km, truck.mileage_kmpl)
      toll_cost == calculate_toll_cost(distance_km)
      revenue == Revenue(distance_km)
      total_cost == FracAdd(fuel_cost, toll_cost)
      profit == FracSub(revenue, total_cost)
  IN
  [origin |-> origin,
   destination |-> destination,
   waypoints |-> <<>>,
   truck_id |-> truck.id,
   driver_phone |-> truck.driver_phone,
   distance_km |-> distance_km,
   fuel_cost |-> Round(fuel_cost),
   toll_cost |-> Round(toll_cost),
   total_cost |-> Round(total_cost),
   expected_revenue |-> Round(revenue),
   expected_profit |-> Round(profit),
   confidence |->
      compute_confidence(LoadPercent(truck.current_load_kg, truck.capacity_kg),
                         FuelOk(truck.fuel_percent), Frac(TrafficTenths, 10)),
   fuel_stops |-> plan_fuel_stops(origin, destination, distance_km,
                                  truck.mileage_kmpl),
   mileage |-> truck.mileage_kmpl,
   truck_capacity_kg |-> truck.capacity_kg,
   truck_current_load_kg |-> truck.current_load_kg,
   available_capacity_kg |->
      AvailableCapacity(truck.capacity_kg, truck.current_load_kg),
   current_location |-> None,
   progress_percent |-> 0,
   end_time |-> None]

plan_trip_with_truck(origin, destination, geo_ok, route_ok, distance_km) ==
  IF ~geo_ok
  THEN /\ ret' = Ret("plan_trip_with_truck", FALSE, "Could not geocode cities")
       /\ UNCHANGED <<trucks, trips, loads, last_assigned_driver, now>>
  ELSE IF RouteFails(route_ok)
  THEN /\ ret' = Ret("plan_trip_with_truck", FALSE, "Route calculation failed")
       /\ UNCHANGED <<trucks, trips, loads, last_assigned_driver, now>>
  ELSE
    LET sel == select_best_truck(origin, destination, distance_km)
    IN IF sel.truck = 0
       THEN /\ ret' = Ret("plan_trip_with_truck", FALSE, "No trucks available")
            /\ last_assigned_driver' = sel.token
            /\ UNCHANGED <<trucks, trips, loads, now>>
       ELSE
         LET truck == trucks[sel.truck]
             created == create_trip(trips, trip_data(origin, destination,
                                                      truck, distance_km))
             trip == LastTrip(created)
             assigned == update_truck_status(trucks, truck.id, "assigned", "")
             i == FirstWith(assigned, truck.id, 1)
         IN /\ trips' = created
            /\ trucks' = [assigned EXCEPT ![i] =
                            [@ EXCEPT !.current_trip_id = trip.id,
                                      !.last_trip_time = now]]
            /\ last_assigned_driver' = sel.token
            /\ ret' = Ret("plan_trip_with_truck", TRUE, "Trip planned")
            /\ UNCHANGED <<loads, now>>

\* plan_trip_with_truck of request q up to the selection of the truck: the
\* request has read the trucks and holds the truck it selected
plan_select(q, origin, destination, geo_ok, route_ok, distance_km) ==
  IF ~geo_ok
  THEN /\ ret' = Ret("plan_trip_with_truck", FALSE, "Could not geocode cities")
       /\ UNCHANGED <<trucks, trips, loads, last_assigned_driver, now,
                      requests>>
  ELSE IF RouteFails(route_ok)
  THEN /\ ret' = Ret("plan_trip_with_truck", FALSE, "Route calculation failed")
       /\ UNCHANGED <<trucks, trips, loads, last_assigned_driver, now,
                      requests>>
  ELSE
    LET sel == select_best_truck(origin, destination, distance_km)
    IN IF sel.truck = 0
       THEN /\ ret' = Ret("plan_trip_with_truck", FALSE, "No trucks available")
            /\ last_assigned_driver' = sel.token
            /\ UNCHANGED <<trucks, trips, loads, now, requests>>
       ELSE /\ requests' = [requests EXCEPT ![q] =
                              [pc |-> "selected", origin |-> origin,
                               destination |-> destination,
                               distance_km |-> distance_km,
                               truck |-> trucks[sel.truck]]]
            /\ last_assigned_driver' = sel.token
            /\ UNCHANGED <<trucks, trips, loads, now, ret>>

\* the rest of plan_trip_with_truck of request q: the trip of the truck it
\* holds is created and the truck is written as assigned
plan_commit(q) ==
  LET req == requests[q]
      created == create_trip(trips, trip_data(req.origin, req.destination,
                                              req.truck, req.distance_km))
      trip == LastTrip(created)
      assigned == update_truck_status(trucks, req.truck.id, "assigned", "")
      i == FirstWith(assigned, req.truck.id, 1)
  IN /\ trips' = created
     /\ trucks' = [assigned EXCEPT ![i] =
                     [@ EXCEPT !.current_trip_id = trip.id,
                               !.last_trip_time = now]]
     /\ requests' = [requests EXCEPT ![q] = [pc |-> "idle"]]
     /\ ret' = Ret("plan_trip_with_truck", TRUE, "Trip planned")
     /\ UNCHANGED <<loads, last_assigned_driver, now>>

-----------------------------------------------------------------------------
(* agent/agent_loop.py: lifecycle *)

\* an accept that does not look at the phone
AcceptAuthorized_Anyone(trip, driver_phone) == TRUE

AcceptAuthorized(trip, driver_phone) == trip.driver_phone = driver_phone

accept_trip(trip_id, driver_phone) ==
  LET i == get_trip_by_id(trip_id)
  IN IF i = 0
     THEN /\ ret' = Ret("accept_trip", FALSE, "Trip not found")
          /\ UNCHANGED <<trucks, trips, loads, last_assigned_driver, now>>
     ELSE IF ~AcceptAuthorized(trips[i], driver_phone)
     THEN /\ ret' = Ret("accept_trip", FALSE, "Not authorized")
          /\ UNCHANGED <<trucks, trips, loads, last_assigned_driver, now>>
     ELSE /\ trips' = update_trip_status(trips, trip_id, "accepted", "")
          /\ trucks' = IF trips[i].truck_id # ""
                       THEN update_truck_status(trucks, trips[i].truck_id,
                                                "in_transit", "")
                       ELSE trucks
          /\ ret' = Ret("accept_trip", TRUE, "Trip accepted")
          /\ UNCHANGED <<loads, last_assigned_driver, now>>

start_trip(trip_id, location) ==
  LET i == get_trip_by_id(trip_id)
  IN IF i = 0
     THEN /\ ret' = Ret("start_trip", FALSE, "Trip not found")
          /\ UNCHANGED <<trucks, trips, loads, last_assigned_driver, now>>
     ELSE LET k == FirstWith(trucks, trips[i].truck_id, 1)
          IN /\ trips' = update_trip_status(trips, trip_id, "in_progress",
                                            location)
             /\ trucks' = IF trips[i].truck_id # "" /\ k # 0
                          THEN [trucks EXCEPT ![k].location = location]
                          ELSE trucks
             /\ ret' = Ret("start_trip", TRUE, "Trip started")
             /\ UNCHANGED <<loads, last_assigned_driver, now>>

\* (distance / mileage) * 100 / 400 percent, in units of 1/FuelDen percent
FuelUsed(distance_km, mileage_kmpl) ==
  (distance_km * ((FuelDen * 100) \div TankLitres)) \div mileage_kmpl

\* a deduction without the floor
FuelAfter_NoFloor(current_fuel, fuel_used) == current_fuel - fuel_used

FuelAfter(current_fuel, fuel_used) == Max(0, current_fuel - fuel_used)

complete_trip(trip_id, location) ==
  LET i == get_trip_by_id(trip_id)
  IN IF i = 0
     THEN /\ ret' = Ret("complete_trip", FALSE, "Trip not found")
          /\ UNCHANGED <<trucks, trips, loads, last_assigned_driver, now>>
     ELSE LET trip == trips[i]
              freed == update_truck_status(trucks, trip.truck_id,
                                           "available", location)
              k == FirstWith(freed, trip.truck_id, 1)
              done == update_trip_status(trips, trip_id, "completed", location)
          IN /\ trucks' =
                  IF trip.truck_id # "" /\ k # 0
                  THEN [freed EXCEPT ![k] =
                          [@ EXCEPT !.current_load_kg = 0,
                                    !.current_trip_id = None,
                                    !.location = location,
                                    !.fuel_percent =
                                       FuelAfter(@, FuelUsed(trip.distance_km,
                                                 freed[k].mileage_kmpl))]]
                  ELSE trucks
             /\ trips' = [done EXCEPT ![i] =
                            [@ EXCEPT !.end_time = Timestamp,
                                      !.progress_percent = 100]]
             /\ ret' = Ret("complete_trip", TRUE, "Trip completed")
             /\ UNCHANGED <<loads, last_assigned_driver, now>>

\* an increment capped at 100 instead of 95
NextProgress_To100(progress) ==
  IF progress < 100 THEN Min(progress + ProgressStep, 100) ELSE progress

NextProgress(progress) ==
  IF progress < 100 THEN Min(progress + ProgressStep, ProgressCap)
  ELSE progress

update_trip_location(trip_id, location) ==
  LET i == get_trip_by_id(trip_id)
  IN IF i = 0
     THEN /\ ret' = Ret("update_trip_location", FALSE, "Trip not found")
          /\ UNCHANGED <<trucks, trips, loads, last_assigned_driver, now>>
     ELSE LET moved == update_trip_status(trips, trip_id, "in_progress",
                                          location)
          IN /\ trips' = [moved EXCEPT ![i] =
                            [@ EXCEPT !.current_location = location,
                                      !.progress_percent =
                                         NextProgress(trips[i].progress_percent)]]
             /\ ret' = Ret("update_trip_location", TRUE, "Location updated")
             /\ UNCHANGED <<trucks, loads, last_assigned_driver, now>>

-----------------------------------------------------------------------------
(* Load requests: whatsapp/webhook.py and whatsapp/business_notifications.py *)

\* the id create_load_request gives the n-th load of the store
LoadId(n) == "LOAD" \o Format03d(n)

create_load_request(weight_kg, pickup, dropoff) ==
  /\ loads' = Append(loads, [id |-> LoadId(Len(loads) + 1),
                             weight_kg |-> weight_kg,
                             pickup |-> pickup, dropoff |-> dropoff,
                             status |-> "pending", trip_id |-> None])
  /\ ret' = Ret("create_load_request", TRUE, "Load Request Received")
  /\ UNCHANGED <<trucks, trips, last_assigned_driver, now>>

\* city.lower() in f"{origin.lower()} {destination.lower()}", for the city
\* names of the model (none is part of another)
OnRoute(city, trip) ==
  Lower(city) \in {Lower(trip.origin), Lower(trip.destination)}

\* an approval that does not look at the capacity left
CapacityFits_Unchecked(trip, load) == TRUE

CapacityFits(trip, load) == trip.available_capacity_kg >= load.weight_kg

RECURSIVE FirstSuitable(_, _)
\* position in trips of the first active trip that suits the load, 0 if none
FirstSuitable(load, i) ==
  IF i > Len(trips) THEN 0
  ELSE IF /\ trips[i].status \in ActiveStatuses
          /\ OnRoute(load.pickup, trips[i]) \/ OnRoute(load.dropoff, trips[i])
          /\ CapacityFits(trips[i], load)
       THEN i ELSE FirstSuitable(load, i + 1)

AddWaypoint(waypoints, city) ==
  IF \E j \in 1..Len(waypoints) : waypoints[j] = city
  THEN waypoints ELSE Append(waypoints, city)

\* the manager's ACCEPT LOAD <load_id>
accept_load(load_id) ==
  LET j == FirstWith(loads, load_id, 1)
  IN IF j = 0
     THEN /\ ret' = Ret("accept_load", FALSE, "Load not found")
          /\ UNCHANGED <<trucks, trips, loads, last_assigned_driver, now>>
     ELSE
       LET load == loads[j]
           i == FirstSuitable(load, 1)
       IN IF i = 0
          THEN /\ ret' = Ret("accept_load", FALSE, "No suitable trip found")
               /\ UNCHANGED <<trucks, trips, loads, last_assigned_driver, now>>
          ELSE /\ loads' = [loads EXCEPT ![j] =
                              [@ EXCEPT !.status = "approved",
                                        !.trip_id = trips[i].id]]
               /\ trips' =
                    IF load.pickup # trips[i].origin
                    THEN [trips EXCEPT ![FirstWith(trips, trips[i].id, 1)] =
                            [@ EXCEPT !.waypoints =
                                         AddWaypoint(AddWaypoint(@, load.pickup),
                                                     load.dropoff),
                                      !.available_capacity_kg =
                                         @ - load.weight_kg]]
                    ELSE trips
               /\ ret' = Ret("accept_load", TRUE, "Load Approved")
               /\ UNCHANGED <<trucks, last_assigned_driver, now>>

\* the manager's REJECT LOAD <load_id>
reject_load(load_id) ==
  LET j == FirstWith(loads, load_id, 1)
  IN /\ loads' = IF j = 0 THEN loads
                 ELSE [loads EXCEPT ![j].status = "rejected"]
     /\ ret' = Ret("reject_load", TRUE, "Load rejected")
     /\ UNCHANGED <<trucks, trips, last_assigned_driver, now>>

-----------------------------------------------------------------------------
(* agent/agent_loop.py: loads for a truck that is on its way *)

get_truck_by_id(truck_id) == FirstWith(trucks, truck_id, 1)

get_pending_loads == SelectSeq(loads, LAMBDA l : l.status = "pending")

\* a test that takes every truck with a trip for one on its way
InTransit_NotAvailable(truck) == truck.status # "available"

InTransit(truck) == truck.status = "in_transit"

FitsCapacity(load_weight, available_capacity) ==
  load_weight <= available_capacity

\* additional_revenue is kept in paise
Opportunity(load) ==
  [load_id |-> load.id, weight_kg |-> load.weight_kg,
   pickup |-> load.pickup, dropoff |-> load.dropoff,
   additional_revenue |-> load.weight_kg * RevenuePaisePerKg]

\* a result that is not cut
TopOpportunities_All(opportunities) == opportunities

\* opportunities[:3]
TopOpportunities(opportunities) ==
  SubSeq(opportunities, 1, Min(MaxOpportunities, Len(opportunities)))

\* the list find_enroute_opportunities returns
find_enroute_opportunities(truck_id) ==
  LET k == get_truck_by_id(truck_id)
  IN IF k = 0 \/ ~InTransit(trucks[k]) THEN <<>>
     ELSE IF trucks[k].current_trip_id = None THEN <<>>
     ELSE
       LET i == get_trip_by_id(trucks[k].current_trip_id)
       IN IF i = 0 THEN <<>>
          ELSE IF trips[i].available_capacity_kg <= 0 THEN <<>>
          ELSE
            LET fits == SelectSeq(get_pending_loads,
                                  LAMBDA l : FitsCapacity(l.weight_kg,
                                               trips[i].available_capacity_kg))
            IN TopOpportunities([j \in 1..Len(fits) |-> Opportunity(fits[j])])

-----------------------------------------------------------------------------
(* whatsapp/webhook.py: the commands of a driver in handle_message *)

\* a lookup that takes the first active trip, whoever drives it
driver_trip_AnyPhone(phone_number) ==
  IF \E i \in 1..Len(trips) : trips[i].status \in ActiveStatuses
  THEN CHOOSE i \in 1..Len(trips) :
         /\ trips[i].status \in ActiveStatuses
         /\ \A j \in 1..(i - 1) : trips[j].status \notin ActiveStatuses
  ELSE 0

\* position in trips of the first active trip of the phone, 0 for none
driver_trip(phone_number) ==
  IF \E i \in 1..Len(trips) :
       trips[i].status \in ActiveStatuses /\ trips[i].driver_phone = phone_number
  THEN CHOOSE i \in 1..Len(trips) :
         /\ trips[i].status \in ActiveStatuses
         /\ trips[i].driver_phone = phone_number
         /\ \A j \in 1..(i - 1) :
              ~(/\ trips[j].status \in ActiveStatuses
                /\ trips[j].driver_phone = phone_number)
  ELSE 0

\* START or ACCEPT: accept_trip and, when it succeeds, start_trip from the
\* origin of the trip
handle_driver_start(phone_number) ==
  LET d == driver_trip(phone_number)
  IN IF d = 0
     THEN /\ ret' = Ret("handle_message", FALSE, "No trip assigned to you")
          /\ UNCHANGED <<trucks, trips, loads, last_assigned_driver, now>>
     ELSE
       LET trip_id == trips[d].id
           i == get_trip_by_id(trip_id)
           trip == trips[i]
       IN IF ~AcceptAuthorized(trip, phone_number)
          THEN /\ ret' = Ret("accept_trip", FALSE, "Not authorized")
               /\ UNCHANGED <<trucks, trips, loads, last_assigned_driver, now>>
          ELSE
            LET accepted == update_trip_status(trips, trip_id, "accepted", "")
                transit == IF trip.truck_id # ""
                           THEN update_truck_status(trucks, trip.truck_id,
                                                    "in_transit", "")
                           ELSE trucks
                k == FirstWith(transit, trip.truck_id, 1)
            IN /\ trips' = update_trip_status(accepted, trip_id,
                                              "in_progress", trips[d].origin)
               /\ trucks' = IF trip.truck_id # "" /\ k # 0
                            THEN [transit EXCEPT ![k].location = trips[d].origin]
                            ELSE transit
               /\ ret' = Ret("start_trip", TRUE, "Trip started")
               /\ UNCHANGED <<loads, last_assigned_driver, now>>

\* LOCATION <place>
handle_driver_location(phone_number, location) ==
  LET d == driver_trip(phone_number)
  IN IF d = 0
     THEN /\ ret' = Ret("handle_message", FALSE, "No active trip")
          /\ UNCHANGED <<trucks, trips, loads, last_assigned_driver, now>>
     ELSE update_trip_location(trips[d].id, location)

\* an ARRIVED that only reports where the truck stands
handle_driver_arrived_LocationOnly(phone_number, location) ==
  handle_driver_location(phone_number, location)

\* ARRIVED, with "at <place>" or without: location is "" without
handle_driver_arrived(phone_number, location) ==
  LET d == driver_trip(phone_number)
  IN IF d = 0
     THEN /\ ret' = Ret("handle_message", FALSE, "No active trip")
          /\ UNCHANGED <<trucks, trips, loads, last_assigned_driver, now>>
     ELSE complete_trip(trips[d].id,
                        IF location # "" THEN location ELSE trips[d].destination)

-----------------------------------------------------------------------------
(* The system *)

\* the requests that may be in flight at once, and one that is not
Requests == {1, 2}
Idle == [pc |-> "idle"]

TripIds == {TripId(n) : n \in 1..(MaxTrips + 1)}
LoadIds == {LoadId(n) : n \in 1..(MaxLoads + 1)}

Init ==
  /\ trucks = TwinFleet
  /\ trips = <<>>
  /\ loads = <<>>
  /\ last_assigned_driver = None
  /\ now = StartTime
  /\ ret = Ret("none", TRUE, "")
  /\ requests = [q \in Requests |-> Idle]

\* a request to plan a trip, while the store holds fewer than n trips
Plan(n) ==
  \E r \in Routes, geo_ok \in BOOLEAN, route_ok \in BOOLEAN,
     d \in RouteDistances :
    /\ Len(trips) < n \/ ~geo_ok \/ ~route_ok
         \/ \A i \in TruckIdx : trucks[i].status # "available"
    /\ plan_trip_with_truck(r[1], r[2], geo_ok, route_ok, d)
    /\ UNCHANGED requests

Accept ==
  \E t \in TripIds, p \in Phones : accept_trip(t, p) /\ UNCHANGED requests

Start ==
  \E t \in TripIds, l \in Locations : start_trip(t, l) /\ UNCHANGED requests

Complete ==
  \E t \in TripIds, l \in Locations : complete_trip(t, l) /\ UNCHANGED requests

UpdateLocation ==
  \E t \in TripIds, l \in Locations :
    update_trip_location(t, l) /\ UNCHANGED requests

CreateLoad ==
  /\ Len(loads) < MaxLoads
  /\ \E w \in LoadWeights, r \in LoadRoutes : create_load_request(w, r[1], r[2])
  /\ UNCHANGED requests

AcceptLoad == \E l \in LoadIds : accept_load(l) /\ UNCHANGED requests

RejectLoad == \E l \in LoadIds : reject_load(l) /\ UNCHANGED requests

DriverStart(p) == handle_driver_start(p) /\ UNCHANGED requests

DriverLocation(p) ==
  \E l \in Locations : handle_driver_location(p, l) /\ UNCHANGED requests

DriverArrived(p) ==
  \E l \in Locations \cup {""} :
    handle_driver_arrived(p, l) /\ UNCHANGED requests

\* a message of a driver
DriverMessage ==
  \E p \in Phones : DriverStart(p) \/ DriverLocation(p) \/ DriverArrived(p)

Lifecycle == Accept \/ Start \/ Complete \/ UpdateLocation

\* planning and the drivers' operations
Next == Plan(MaxTrips) \/ Lifecycle

Spec == Init /\ [][Next]_vars

\* one trip, with the customers' loads and the manager's decisions on them
LoadNext ==
  Plan(MaxLoadTrips) \/ Lifecycle \/ CreateLoad \/ AcceptLoad \/ RejectLoad

LoadSpec == Init /\ [][LoadNext]_vars

\* the sizes of the trip stores that sequences of create_trip calls start
\* from: the ids of the next trips have one, two, three and four digits
StoreSizes == {0, 8, 98, 998}

\* the store n calls of create_trip leave, the trips completed since
StoredTrips(n) ==
  [i \in 1..n |->
     [id |-> TripId(i), status |-> "completed"]
       @@ trip_data("Mumbai", "Delhi", TwinFleet[1], 11200)]

CreateInit ==
  /\ trucks = TwinFleet
  /\ trips \in {StoredTrips(n) : n \in StoreSizes}
  /\ loads = <<>>
  /\ last_assigned_driver = None
  /\ now = StartTime
  /\ ret = Ret("none", TRUE, "")
  /\ requests = [q \in Requests |-> Idle]

\* db.create_trip(trip_data), for at most MaxCreated calls after the start
CreateTrip ==
  /\ \E n \in StoreSizes : n <= Len(trips) /\ Len(trips) < n + MaxCreated
  /\ \E r \in Routes, k \in TruckIdx, d \in RouteDistances :
       trips' = create_trip(trips, trip_data(r[1], r[2], trucks[k], d))
  /\ ret' = Ret("create_trip", TRUE, LastTrip(trips').id)
  /\ UNCHANGED <<trucks, loads, last_assigned_driver, now, requests>>

CreateSpec == CreateInit /\ [][CreateTrip]_vars

InFlight == {q \in Requests : requests[q].pc = "selected"}

\* a request starts, while the trips stored and about to be stored are
\* fewer than MaxRaceTrips
PlanSelect(q) ==
  /\ requests[q].pc = "idle"
  /\ Len(trips) + Cardinality(InFlight) < MaxRaceTrips
  /\ \E r \in Routes, geo_ok \in BOOLEAN, route_ok \in BOOLEAN,
        d \in RouteDistances :
       plan_select(q, r[1], r[2], geo_ok, route_ok, d)

PlanCommit(q) ==
  /\ requests[q].pc = "selected"
  /\ plan_commit(q)

\* plan requests that interleave between the selection and the writes, with
\* the drivers accepting and completing
RaceNext ==
  \/ \E q \in Requests : PlanSelect(q) \/ PlanCommit(q)
  \/ Accept
  \/ Complete

RaceSpec == Init /\ [][RaceNext]_vars

\* the loads the store may hold when a truck is asked for opportunities: the
\* weight and the status of each
MatchLoadKinds ==
  { <<500, "pending">>, <<2500, "pending">>, <<800, "pending">>,
    <<1900, "pending">>, <<800, "rejected">> }

\* the stores of n loads that n calls of create_load_request and the
\* manager's rejections leave
LoadStores(n) ==
  { [j \in 1..n |->
       [id |-> LoadId(j), weight_kg |-> kinds[j][1], pickup |-> "Delhi",
        dropoff |-> "Mumbai", status |-> kinds[j][2], trip_id |-> None]] :
    kinds \in [1..n -> MatchLoadKinds] }

\* the first truck carries 8000 or 10000 kg of its 10000 kg
MatchFleets ==
  { [TwinFleet EXCEPT ![1].current_load_kg = load] : load \in {8000, 10000} }

\* the trucks that are asked about: those of the fleet and one that is not
AskedTruckIds == {"TRK001", "TRK002", "TRK999"}

MatchInit ==
  /\ trucks \in MatchFleets
  /\ trips = <<>>
  /\ loads \in UNION {LoadStores(n) : n \in 0..MaxMatchLoads}
  /\ last_assigned_driver = None
  /\ now = StartTime
  /\ ret = Ret("none", TRUE, "")
  /\ requests = [q \in Requests |-> Idle]

\* a query that marks the loads it offers as matched
FindOpportunities_Marking ==
  \E truck_id \in AskedTruckIds :
    LET found == find_enroute_opportunities(truck_id)
    IN /\ ret' = Ret("find_enroute_opportunities", TRUE,
                     [truck_id |-> truck_id, opportunities |-> found])
       /\ loads' = [j \in 1..Len(loads) |->
                      IF \E n \in 1..Len(found) : found[n].load_id = loads[j].id
                      THEN [loads[j] EXCEPT !.status = "matched"]
                      ELSE loads[j]]
       /\ UNCHANGED <<trucks, trips, last_assigned_driver, now, requests>>

\* a call of find_enroute_opportunities: ret holds the truck asked about
\* and the list returned
FindOpportunities ==
  \E truck_id \in AskedTruckIds :
    /\ ret' = Ret("find_enroute_opportunities", TRUE,
                  [truck_id |-> truck_id,
                   opportunities |-> find_enroute_opportunities(truck_id)])
    /\ UNCHANGED <<trucks, trips, loads, last_assigned_driver, now, requests>>

MatchNext == Plan(MaxMatchTrips) \/ Accept \/ Complete \/ FindOpportunities

MatchSpec == MatchInit /\ [][MatchNext]_vars

\* the manager's plans and the drivers' messages through handle_message
ChatNext == Plan(MaxChatTrips) \/ DriverMessage

ChatSpec == Init /\ [][ChatNext]_vars

-----------------------------------------------------------------------------
(* Properties *)

Rank(status) ==
  CASE status = "pending" -> 0
    [] status = "accepted" -> 1
    [] status = "in_progress" -> 2
    [] status = "completed" -> 3

\* C1: no accept_trip, start_trip, update_trip_location or complete_trip
\* call moves the status of a trip backward in the order pending < accepted
\* < in_progress < completed.
C1_StatusNeverMovesBackward ==
  [][\A i \in 1..Len(trips) :
       Rank(trips'[i].status) >= Rank(trips[i].status)]_vars

LegalSteps ==
  { <<"pending", "accepted", "accept_trip">>,
    <<"accepted", "in_progress", "start_trip">>,
    <<"in_progress", "completed", "complete_trip">> }

\* C2: every change of a trip's status is pending to accepted by accept,
\* accepted to in_progress by start, or in_progress to completed by complete.
C2_OnlyThreeSteps ==
  [][\A i \in 1..Len(trips) :
       trips'[i].status # trips[i].status
         => <<trips[i].status, trips'[i].status, ret'.op>> \in LegalSteps]_vars

\* C3: no step leaves a trip with a progress_percent above 95, unless it is
\* exactly 100 and either the step is a complete_trip or the trip had 100
\* before: update_trip_location never pushes progress above 95, and 100 is
\* only ever written by complete_trip.
C3_ProgressBound ==
  [][\A i \in 1..Len(trips') :
       trips'[i].progress_percent > ProgressCap
         => /\ trips'[i].progress_percent = 100
            /\ \/ ret'.op = "complete_trip"
               \/ i <= Len(trips) /\ trips[i].progress_percent = 100]_vars

\* the cap has cut an increment: 95 is no multiple of the step
C3_Witness ==
  \E i \in 1..Len(trips) :
    /\ trips[i].progress_percent = ProgressCap
    /\ ret = Ret("update_trip_location", TRUE, "Location updated")

AvailableNow == {i \in TruckIdx : trucks[i].status = "available"}

\* C4: when the available vehicles have pairwise distinct drivers, at least
\* two of them, and equal quality scores for the request, the vehicle a
\* plan selects is not of the driver the previous selection went to.
C4_NoDriverTwiceInARow ==
  [][( /\ Len(trips') = Len(trips) + 1
       /\ Len(trips) >= 1
       /\ Cardinality(AvailableNow) >= 2
       /\ \A i, j \in AvailableNow :
            /\ i # j => trucks[i].driver_phone # trucks[j].driver_phone
            /\ calculate_truck_score(trucks[i], LastTrip(trips').origin,
                                     LastTrip(trips').distance_km)
               = calculate_truck_score(trucks[j], LastTrip(trips').origin,
                                       LastTrip(trips').distance_km) )
      => LastTrip(trips').driver_phone # LastTrip(trips).driver_phone]_vars

\* C5: after a plan that selected a vehicle, the fairness token is the phone
\* of the selected vehicle's driver.
C5_TokenIsSelectedDriver ==
  (ret = Ret("plan_trip_with_truck", TRUE, "Trip planned"))
    => last_assigned_driver = LastTrip(trips).driver_phone

\* C6: a trip is created with available_capacity_kg = capacity_kg -
\* current_load_kg of the selected vehicle, and no step (the manager's load
\* approvals included) leaves a trip with a negative available_capacity_kg.
C6_Capacity ==
  [][/\ Len(trips') = Len(trips) + 1
          => LET new == LastTrip(trips')
                 truck == trucks[FirstWith(trucks, new.truck_id, 1)]
             IN new.available_capacity_kg
                  = truck.capacity_kg - truck.current_load_kg
     /\ \A i \in 1..Len(trips') : trips'[i].available_capacity_kg >= 0]_vars

\* approvals have used up the whole capacity of a trip of a part-loaded truck
C6_Witness ==
  \E i \in 1..Len(trips) :
    /\ trips[i].truck_current_load_kg > 0
    /\ trips[i].available_capacity_kg = 0
    /\ ret = Ret("accept_load", TRUE, "Load Approved")

\* C7: the fuel_percent of every vehicle stays within [0, 100], after
\* complete_trip in particular it is not negative.
C7_FuelInRange ==
  \A i \in TruckIdx :
    trucks[i].fuel_percent >= 0 /\ trucks[i].fuel_percent <= 100 * FuelDen

\* a completion whose consumption exceeded the fuel left
C7_Witness ==
  /\ ret = Ret("complete_trip", TRUE, "Trip completed")
  /\ \E i \in TruckIdx :
       trucks[i].fuel_percent = 0 /\ trucks[i].status = "available"

C9_NoTruckChangesNothing ==
  [][\A r \in Routes, d \in RouteDistances :
       (plan_trip_with_truck(r[1], r[2], TRUE, TRUE, d) /\ AvailableNow = {})
         => /\ ret' = Ret("plan_trip_with_truck", FALSE, "No trucks available")
            /\ UNCHANGED <<trips, trucks, loads, last_assigned_driver>>]_vars

C9_Witness ==
  /\ ret = Ret("plan_trip_with_truck", FALSE, "No trucks available")
  /\ AvailableNow = {}
  /\ last_assigned_driver # None

\* C10: accept_trip by a phone that is not the trip's driver_phone returns
\* "Not authorized" and changes no trip and no vehicle.
C10_WrongDriverRejected ==
  [][\A t \in TripIds, p \in Phones :
       (accept_trip(t, p)
          /\ get_trip_by_id(t) # 0
          /\ trips[get_trip_by_id(t)].driver_phone # p)
         => /\ ret' = Ret("accept_trip", FALSE, "Not authorized")
            /\ UNCHANGED <<trips, trucks>>]_vars

C10_Witness ==
  /\ ret = Ret("accept_trip", FALSE, "Not authorized")
  /\ \E i \in 1..Len(trips) : trips[i].status = "pending"

\* C11: a START/ACCEPT, LOCATION or ARRIVED message from phone p changes no
\* trip whose driver_phone is not p and no vehicle assigned to such a trip.
C11_DriverTouchesOwnTripOnly ==
  [][\A p \in Phones :
       (DriverStart(p) \/ DriverLocation(p) \/ DriverArrived(p))
         => \A i \in 1..Len(trips) :
              trips[i].driver_phone # p
                => /\ trips'[i] = trips[i]
                   /\ \A k \in TruckIdx :
                        trucks[k].id = trips[i].truck_id
                          => trucks'[k] = trucks[k]]_vars

\* a driver's message was carried out while the trip of another driver, an
\* active one, stood before the driver's own in the store
C11_Witness ==
  /\ Len(trips) >= 2
  /\ trips[1].status = "pending"
  /\ trips[2].driver_phone # trips[1].driver_phone
  /\ trips[2].status = "in_progress"
  /\ ret = Ret("update_trip_location", TRUE, "Location updated")

\* C12: accept_trip, start_trip, update_trip_location and complete_trip with
\* a trip id that no stored trip has return "Trip not found" and change no
\* trip and no vehicle.
C12_UnknownTripChangesNothing ==
  [][\A t \in TripIds :
       (\A i \in 1..Len(trips) : trips[i].id # t)
         => \A p \in Phones, l \in Locations :
              /\ accept_trip(t, p)
                   => ret' = Ret("accept_trip", FALSE, "Trip not found")
              /\ start_trip(t, l)
                   => ret' = Ret("start_trip", FALSE, "Trip not found")
              /\ update_trip_location(t, l)
                   => ret' = Ret("update_trip_location", FALSE,
                                 "Trip not found")
              /\ complete_trip(t, l)
                   => ret' = Ret("complete_trip", FALSE, "Trip not found")
              /\ (accept_trip(t, p) \/ start_trip(t, l)
                    \/ update_trip_location(t, l) \/ complete_trip(t, l))
                   => UNCHANGED <<trips, trucks>>]_vars

\* an unknown id was refused while the store held a trip in progress
C12_Witness ==
  /\ ret = Ret("complete_trip", FALSE, "Trip not found")
  /\ \E i \in 1..Len(trips) : trips[i].status = "in_progress"

\* C13: a successful plan_trip_with_truck appends exactly one trip, pending
\* and of an available vehicle, sets that vehicle to assigned with the new
\* trip's id as current_trip_id, and leaves every other vehicle and every
\* existing trip as it was.
C13_PlanFrame ==
  [][ret' = Ret("plan_trip_with_truck", TRUE, "Trip planned")
       => /\ Len(trips') = Len(trips) + 1
          /\ SubSeq(trips', 1, Len(trips)) = trips
          /\ LastTrip(trips').status = "pending"
          /\ \E k \in TruckIdx :
               /\ trucks[k].id = LastTrip(trips').truck_id
               /\ trucks[k].status = "available"
               /\ trucks'[k].status = "assigned"
               /\ trucks'[k].current_trip_id = LastTrip(trips').id
               /\ \A j \in TruckIdx \ {k} : trucks'[j] = trucks[j]]_vars

\* a plan that found an accepted trip and a vehicle in transit in the store
C13_Witness ==
  /\ ret = Ret("plan_trip_with_truck", TRUE, "Trip planned")
  /\ Len(trips) = 2
  /\ trips[1].status = "accepted"
  /\ \E j, k \in TruckIdx :
       /\ trucks[j].status = "in_transit"
       /\ trucks[k].status = "assigned"
       /\ trucks[k].current_trip_id = trips[2].id

\* "TRIP" and the decimal digits of n, at least three of them
TripIdDigits(n) ==
  IF n < 1000
  THEN "TRIP" \o ToString(n \div 100) \o ToString((n \div 10) % 10)
              \o ToString(n % 10)
  ELSE "TRIP" \o ToString(n)

\* C14: the n-th trip of the store has the id "TRIP" followed by n with at
\* least three digits, and a create_trip call keeps the stored trips and
\* appends one whose id no stored trip has.
C14_SequentialIds ==
  /\ [](\A i \in 1..Len(trips) : trips[i].id = TripIdDigits(i))
  /\ [][ret'.op = "create_trip"
          => /\ Len(trips') = Len(trips) + 1
             /\ \A i \in 1..Len(trips) :
                  trips'[i] = trips[i] /\ trips[i].id # LastTrip(trips').id]_vars

\* the thousandth trip has been created, with a four digit id
C14_Witness ==
  /\ ret = Ret("create_trip", TRUE, "TRIP1000")
  /\ Len(trips) = 1000
  /\ trips[999].id = "TRIP999"

\* C15: nothing stands between the selection of a request and its writes. A
\* request selects a truck it reads as available, also one that a request in
\* flight holds, and it then creates a pending trip of the truck it holds
\* whatever has been written since.
C15_SelectionIsNotRechecked ==
  [][\A q \in Requests :
       /\ (requests[q].pc = "idle" /\ requests'[q].pc = "selected")
            => \E k \in TruckIdx :
                 /\ trucks[k] = requests'[q].truck
                 /\ trucks[k].status = "available"
       /\ (requests[q].pc = "selected" /\ requests'[q].pc = "idle")
            => /\ Len(trips') = Len(trips) + 1
               /\ LastTrip(trips').truck_id = requests[q].truck.id
               /\ LastTrip(trips').status = "pending"]_vars

\* two pending trips of the same vehicle
C15_Witness ==
  \E i, j \in 1..Len(trips) :
    /\ i # j
    /\ trips[i].truck_id = trips[j].truck_id
    /\ trips[i].status = "pending"
    /\ trips[j].status = "pending"

\* C16: complete_trip of a stored trip leaves the trip completed, at 100
\* percent and at the given location, and the trip's vehicle available, at
\* the given location, with no load and no current trip.
C16_CompleteEffects ==
  [][\A t \in TripIds, l \in Locations :
       ((\E i \in 1..Len(trips) : trips[i].id = t) /\ complete_trip(t, l))
         => \A i \in 1..Len(trips) :
              trips[i].id = t
                => /\ trips'[i].status = "completed"
                   /\ trips'[i].progress_percent = 100
                   /\ trips'[i].current_location = l
                   /\ \A k \in TruckIdx :
                        trucks[k].id = trips[i].truck_id
                          => /\ trucks'[k].status = "available"
                             /\ trucks'[k].location = l
                             /\ trucks'[k].current_load_kg = 0
                             /\ trucks'[k].current_trip_id = None]_vars

\* the truck that was part loaded has completed its trip
C16_Witness ==
  /\ ret = Ret("complete_trip", TRUE, "Trip completed")
  /\ \E i \in 1..Len(trips), k \in TruckIdx :
       /\ trips[i].status = "completed"
       /\ trips[i].truck_current_load_kg > 0
       /\ trucks[k].id = trips[i].truck_id
       /\ trucks[k].status = "available"
       /\ trucks[k].current_load_kg = 0
       /\ trucks[k].current_trip_id = None
       /\ trucks[k].location = trips[i].current_location

\* C17: complete_trip of a trip that is completed already succeeds again,
\* takes the trip's fuel consumption from the vehicle's fuel_percent once
\* more, not below 0, and leaves current_load_kg at 0.
C17_CompleteTwiceDeductsTwice ==
  [][\A t \in TripIds, l \in Locations :
       ((\E i \in 1..Len(trips) :
            trips[i].id = t /\ trips[i].status = "completed")
          /\ complete_trip(t, l))
         => /\ ret' = Ret("complete_trip", TRUE, "Trip completed")
            /\ \A i \in 1..Len(trips), k \in TruckIdx :
                 (trips[i].id = t /\ trucks[k].id = trips[i].truck_id)
                   => LET used == (trips[i].distance_km * (FuelDen \div 4))
                                    \div trucks[k].mileage_kmpl
                      IN /\ trucks'[k].fuel_percent
                              = Max(0, trucks[k].fuel_percent - used)
                         /\ trucks'[k].current_load_kg = 0]_vars

\* the only trip completed twice: the truck that had fuel for one such trip
\* and a little more is empty
C17_Witness ==
  /\ ret = Ret("complete_trip", TRUE, "Trip completed")
  /\ Len(trips) = 1
  /\ trips[1].status = "completed"
  /\ \E k \in TruckIdx :
       /\ trucks[k].id = trips[1].truck_id
       /\ TwinFleet[k].fuel_percent > FuelUsed(trips[1].distance_km,
                                               trucks[k].mileage_kmpl)
       /\ trucks[k].fuel_percent = 0

\* C18: accept_trip of a stored trip by the trip's driver sets the trip to
\* accepted and the trip's vehicle to in_transit, and changes nothing else
\* of any trip or vehicle.
C18_AcceptEffects ==
  [][\A t \in TripIds, p \in Phones :
       ((\E i \in 1..Len(trips) :
            trips[i].id = t /\ trips[i].driver_phone = p)
          /\ accept_trip(t, p))
         => /\ ret' = Ret("accept_trip", TRUE, "Trip accepted")
            /\ \A i \in 1..Len(trips) :
                 trips'[i] = IF trips[i].id = t
                             THEN [trips[i] EXCEPT !.status = "accepted"]
                             ELSE trips[i]
            /\ \A k \in TruckIdx :
                 trucks'[k] =
                   IF \E i \in 1..Len(trips) :
                        trips[i].id = t /\ trips[i].truck_id = trucks[k].id
                   THEN [trucks[k] EXCEPT !.status = "in_transit"]
                   ELSE trucks[k]]_vars

\* one of two pending trips has been accepted
C18_Witness ==
  /\ ret = Ret("accept_trip", TRUE, "Trip accepted")
  /\ Len(trips) = 2
  /\ trips[1].status = "pending"
  /\ trips[2].status = "accepted"
  /\ \E j, k \in TruckIdx :
       /\ trucks[j].id = trips[1].truck_id /\ trucks[j].status = "assigned"
       /\ trucks[k].id = trips[2].truck_id /\ trucks[k].status = "in_transit"

\* the truck of the last find_enroute_opportunities call, its current trip
\* and the pending loads that fit the trip, as positions in the stores
AskedTruck == {k \in TruckIdx : trucks[k].id = ret.msg.truck_id}

AskedTrip ==
  {i \in 1..Len(trips) :
     \E k \in AskedTruck : trips[i].id = trucks[k].current_trip_id}

Qualifying ==
  {j \in 1..Len(loads) :
     /\ loads[j].status = "pending"
     /\ \E i \in AskedTrip :
          loads[j].weight_kg <= trips[i].available_capacity_kg}

C20_NoOpportunityWithoutPrecondition ==
  (/\ ret.op = "find_enroute_opportunities"
   /\ \/ AskedTruck = {}
      \/ \E k \in AskedTruck : trucks[k].status # "in_transit"
      \/ \E k \in AskedTruck : trucks[k].current_trip_id = None
      \/ AskedTrip = {}
      \/ \E i \in AskedTrip : trips[i].available_capacity_kg <= 0)
    => ret.msg.opportunities = <<>>

\* an assigned truck, not yet in transit, was asked about while loads that
\* fit its trip were pending
C20_Witness ==
  /\ ret.op = "find_enroute_opportunities"
  /\ \E k \in AskedTruck : trucks[k].status = "assigned"
  /\ Qualifying # {}
  /\ ret.msg.opportunities = <<>>

\* C21: a call of find_enroute_opportunities changes no truck, no trip and
\* no load of the store and leaves the last assigned driver as it was,
\* whichever truck is asked about and whatever the store holds.
C21_FindChangesNothing ==
  [][ret'.op = "find_enroute_opportunities"
       => UNCHANGED <<trucks, trips, loads, last_assigned_driver>>]_vars

\* a truck on its way was asked about and was offered loads that are still
\* pending
C21_Witness ==
  /\ ret.op = "find_enroute_opportunities"
  /\ ret.msg.opportunities # <<>>
  /\ \A n \in 1..Len(ret.msg.opportunities) :
       \E j \in 1..Len(loads) :
         /\ loads[j].id = ret.msg.opportunities[n].load_id
         /\ loads[j].status = "pending"
  /\ last_assigned_driver # None

-----------------------------------------------------------------------------
(* calculate_truck_score on its own *)

\* the first two trucks of the default fleet: A and B of the scenario
DefaultFleet ==
  << Truck("TRK001", Phone1, "Mumbai", "Good", 56, 10000, 0, 85),
     Truck("TRK002", Phone2, "Pune", "Excellent", 62, 7000, 0, 90) >>

\* the trucks that are scored: where they stand, their condition, mileage
\* (tenths of km/l), capacity and fuel
ScoreLocations == {"Mumbai", "Navi Mumbai", "Pune"}
ScoreConditions == {"Excellent", "Good", "Fair"}
ScoreMileages == {56, 62}
ScoreCapacities == {7000, 25000}
ScoreFuels == {0, 85, 90, 100}
ScoreOrigins == {"Mumbai", "Delhi"}
ScoreDistances == {1500, 6000, 14000}

ScoreTrucks(id, phone) ==
  { Truck(id, phone, loc, cond, mileage, cap, 0, fuel) :
      loc \in ScoreLocations, cond \in ScoreConditions,
      mileage \in ScoreMileages, cap \in ScoreCapacities, fuel \in ScoreFuels }

ScoreInit ==
  /\ trucks \in { <<a, b>> : a \in ScoreTrucks("TRK001", Phone1),
                             b \in ScoreTrucks("TRK002", Phone2) }
  /\ trips = <<>>
  /\ loads = <<>>
  /\ last_assigned_driver = None
  /\ now = StartTime
  /\ ret = Ret("none", TRUE, "")
  /\ requests = [q \in Requests |-> Idle]

\* a call of calculate_truck_score for every truck of the fleet: ret holds
\* the origin, the distance and the scores
Score ==
  \E origin \in ScoreOrigins, distance_km \in ScoreDistances :
    /\ ret' = Ret("calculate_truck_score", TRUE,
                  [origin |-> origin, distance_km |-> distance_km,
                   scores |-> [i \in TruckIdx |->
                                 calculate_truck_score(trucks[i], origin,
                                                       distance_km)]])
    /\ UNCHANGED <<trucks, trips, loads, last_assigned_driver, now, requests>>

ScoreSpec == ScoreInit /\ [][Score]_vars

\* the two trucks of the fleet are alike but for their fuel
DifferOnlyInFuel ==
  [trucks[1] EXCEPT !.fuel_percent = 0, !.id = "", !.driver_phone = ""]
    = [trucks[2] EXCEPT !.fuel_percent = 0, !.id = "", !.driver_phone = ""]

\* C23: of two trucks that differ only in fuel_percent, the one with more
\* fuel has a score at least as high as the other, for every origin and
\* distance.
C23_ScoreMonotoneInFuel ==
  (ret.op = "calculate_truck_score" /\ DifferOnlyInFuel)
    => \A i, j \in TruckIdx :
         trucks[i].fuel_percent >= trucks[j].fuel_percent
           => ret.msg.scores[i] >= ret.msg.scores[j]

\* two trucks alike but for their fuel were scored, and the fuller one
\* scored strictly higher
C23_Witness ==
  /\ ret.op = "calculate_truck_score"
  /\ DifferOnlyInFuel
  /\ trucks[1].fuel_percent > trucks[2].fuel_percent
  /\ ret.msg.scores[1] > ret.msg.scores[2]

\* A and B of the scenario were scored for a trip of 150 km from Mumbai
ScenarioScored ==
  /\ ret.op = "calculate_truck_score"
  /\ ret.msg.origin = "Mumbai"
  /\ ret.msg.distance_km = 1500
  /\ [i \in TruckIdx |-> [trucks[i] EXCEPT !.capacity_kg = 0]]
       = [i \in TruckIdx |-> [DefaultFleet[i] EXCEPT !.capacity_kg = 0]]

\* C30 as stated: at 150 km from Mumbai A scores 0.747 and B scores 0.414.
C30_ScenarioScoresAsStated ==
  ScenarioScored
    => /\ ret.msg.scores[1] = 7470 * FuelDen
       /\ ret.msg.scores[2] = 4140 * FuelDen

\* C30, amended: at 150 km from Mumbai, a distance of at most 500 km, the
\* mileage counts a tenth of mileage / 10, so A (Mumbai, Good, 5.6, fuel 85)
\* scores 0.4 + 0.15 + 0.085 + 0.056 = 0.691 and B (Pune, Excellent, 6.2,
\* fuel 90) scores 0 + 0.2 + 0.09 + 0.062 = 0.352.
C30_ScenarioScores ==
  ScenarioScored
    => /\ ret.msg.scores[1] = (4000 + 1500 + 850 + 560) * FuelDen
       /\ ret.msg.scores[1] = 6910 * FuelDen
       /\ ret.msg.scores[2] = (0 + 2000 + 900 + 620) * FuelDen
       /\ ret.msg.scores[2] = 3520 * FuelDen

C30_Witness == ScenarioScored /\ ret.msg.scores[1] > ret.msg.scores[2]

-----------------------------------------------------------------------------
(* plan_fuel_stops on its own *)

\* the cities asked for, in the spellings users type, the distances in
\* tenths of a km and the mileages in tenths of a km per litre
StopCities == {"Mumbai", "Delhi", "DELHI", "delhi", "Chennai", "Bangalore",
               "Kochi"}
StopDistances == {1500, 3000, 3001, 3500, 10000, 14000, 30000}
StopMileages == {10, 56}

StopsInit ==
  /\ trucks = DefaultFleet
  /\ trips = <<>>
  /\ loads = <<>>
  /\ last_assigned_driver = None
  /\ now = StartTime
  /\ ret = Ret("none", TRUE, "")
  /\ requests = [q \in Requests |-> Idle]

\* a call of plan_fuel_stops: ret holds the arguments and the stops
PlanFuelStops ==
  \E origin \in StopCities, destination \in StopCities,
     distance_km \in StopDistances, mileage_kmpl \in StopMileages :
    /\ ret' = Ret("plan_fuel_stops", TRUE,
                  [origin |-> origin, destination |-> destination,
                   distance_km |-> distance_km,
                   mileage_kmpl |-> mileage_kmpl,
                   stops |-> plan_fuel_stops(origin, destination, distance_km,
                                             mileage_kmpl)])
    /\ UNCHANGED <<trucks, trips, loads, last_assigned_driver, now, requests>>

StopsSpec == StopsInit /\ [][PlanFuelStops]_vars

\* the pair asked for is in the table of known cities in neither direction
UnknownPair ==
  /\ <<Lower(ret.msg.origin), Lower(ret.msg.destination)>> \notin RouteKeys
  /\ <<Lower(ret.msg.destination), Lower(ret.msg.origin)>> \notin RouteKeys

\* C25: plan_fuel_stops returns the single stop Mid-route, 45%, Regular
\* refueling stop whenever the pair of cities, read in either direction and
\* without regard to case, is not in the table of known cities, or the
\* distance is at most 300 km.
C25_GenericStop ==
  (ret.op = "plan_fuel_stops"
     /\ (UnknownPair \/ ret.msg.distance_km <= 3000))
    => ret.msg.stops = << [city |-> "Mid-route", estimated_fuel |-> "45%",
                           reason |-> "Regular refueling stop"] >>

\* an unknown pair at 350 km got the generic stop
C25_Witness ==
  /\ ret.op = "plan_fuel_stops"
  /\ UnknownPair
  /\ ret.msg.distance_km = 3500
  /\ Len(ret.msg.stops) = 1
  /\ ret.msg.stops[1].city = "Mid-route"

-----------------------------------------------------------------------------
(* select_best_truck and the trips that change what it finds *)

\* the twins and a third truck of a third driver
TripleFleet ==
  TwinFleet \o << Truck("TRK003", Phone3, "Delhi", "Fair", 56, 10000, 0, 75) >>

\* the fleet trucks.json may hold: the default trucks A and B, or the twins
\* and a third truck
SelectFleets == {DefaultFleet, TripleFleet}
SelectDistances == {1500, 14000}
SelectPlanDistances == {14000}

\* more than the 24 hours after which a truck counts as idle
TickSeconds == RecencyWindow + 1

SelectInit ==
  /\ trucks \in SelectFleets
  /\ trips = <<>>
  /\ loads = <<>>
  /\ last_assigned_driver = None
  /\ now = StartTime
  /\ ret = Ret("none", TRUE, "")
  /\ requests = [q \in Requests |-> Idle]

\* a call of select_best_truck: ret holds the arguments, the last assigned
\* driver the call found and the id of the truck returned
SelectTruck ==
  \E r \in Routes, distance_km \in SelectDistances :
    LET sel == select_best_truck(r[1], r[2], distance_km)
    IN /\ ret' = Ret("select_best_truck", TRUE,
                     [origin |-> r[1], distance_km |-> distance_km,
                      last |-> last_assigned_driver,
                      truck_id |-> IF sel.truck = 0 THEN None
                                   ELSE trucks[sel.truck].id])
       /\ last_assigned_driver' = sel.token
       /\ UNCHANGED <<trucks, trips, loads, now, requests>>

\* a plan whose cities and route are found
SelectPlan ==
  \E r \in Routes, d \in SelectPlanDistances :
    /\ Len(trips) < MaxSelectTrips
         \/ \A i \in TruckIdx : trucks[i].status # "available"
    /\ plan_trip_with_truck(r[1], r[2], TRUE, TRUE, d)
    /\ UNCHANGED requests

\* a day passes; ret reports a call against the state the call left, so it
\* is cleared
Tick ==
  /\ now < StartTime + MaxTicks * TickSeconds
  /\ now' = now + TickSeconds
  /\ ret' = Ret("none", TRUE, "")
  /\ UNCHANGED <<trucks, trips, loads, last_assigned_driver, requests>>

SelectNext == SelectTruck \/ SelectPlan \/ Accept \/ Start \/ Complete \/ Tick

SelectSpec == SelectInit /\ [][SelectNext]_vars

\* the trips of a driver that are pending, accepted or in progress
ActiveCount(phone) ==
  Cardinality({i \in 1..Len(trips) :
                 /\ trips[i].status \in {"pending", "accepted", "in_progress"}
                 /\ trips[i].driver_phone = phone})

\* the available list of the call ret reports, as positions in trucks, and
\* the place of a truck in it
SelAvailable == get_available_trucks(ret.msg.origin)
SelTrucks == {SelAvailable[p] : p \in 1..Len(SelAvailable)}
Position(i) == CHOOSE p \in 1..Len(SelAvailable) : SelAvailable[p] = i

Selected == ret.op = "select_best_truck" /\ SelAvailable # <<>>

\* the trucks the rotation chooses from, and the one it chooses
RotationPool ==
  LET others == {i \in SelTrucks : trucks[i].driver_phone # ret.msg.last}
  IN IF others # {} THEN others ELSE SelTrucks

RotationCandidate ==
  CHOOSE c \in RotationPool :
    \A q \in RotationPool \ {c} :
      \/ ActiveCount(trucks[c].driver_phone)
           < ActiveCount(trucks[q].driver_phone)
      \/ /\ ActiveCount(trucks[c].driver_phone)
              = ActiveCount(trucks[q].driver_phone)
         /\ Position(c) < Position(q)

\* the score of the candidate as the gate sees it
CandidateQuality ==
  calculate_truck_score(trucks[RotationCandidate], ret.msg.origin,
                        ret.msg.distance_km)

\* quality score - min(0.3, 0.1 x active trips) + 0.15 if the last trip is
\* more than 86400 seconds back
Adjusted(i) ==
  calculate_truck_score(trucks[i], ret.msg.origin, ret.msg.distance_km)
  - Min(3000, 1000 * ActiveCount(trucks[i].driver_phone)) * FuelDen
  + (IF trucks[i].last_trip_time # 0 /\ now - trucks[i].last_trip_time > 86400
     THEN 1500 * FuelDen ELSE 0)

FallbackWinner ==
  CHOOSE w \in SelTrucks :
    \A q \in SelTrucks \ {w} :
      \/ Adjusted(w) > Adjusted(q)
      \/ Adjusted(w) = Adjusted(q) /\ Position(w) < Position(q)

ReturnedTruck == CHOOSE i \in TruckIdx : trucks[i].id = ret.msg.truck_id

\* C22: with A (Mumbai, Good, 5.6, fuel 85) and B (Pune, Excellent, 6.2,
\* fuel 90) both available, no active trip and no last assigned driver,
\* select_best_truck for origin Mumbai and 150 km returns A.
C22_ScenarioSelectsA ==
  (/\ ret.op = "select_best_truck"
   /\ ret.msg.origin = "Mumbai"
   /\ ret.msg.distance_km = 1500
   /\ ret.msg.last = None
   /\ trucks = DefaultFleet
   /\ get_active_trips = <<>>)
    => ret.msg.truck_id = DefaultFleet[1].id

C22_Witness ==
  /\ ret.op = "select_best_truck"
  /\ ret.msg = [origin |-> "Mumbai", distance_km |-> 1500, last |-> None,
                truck_id |-> "TRK001"]
  /\ trucks = DefaultFleet
  /\ trips = <<>>
  /\ trucks[1].location = "Mumbai" /\ trucks[2].condition = "Excellent"

\* C24: a trip of 1400 km planned for a truck of mileage 5.6 has fuel_cost
\* 23750, toll_cost 2100, expected_revenue 42000 and expected_profit 16150,
\* the revenue less the fuel and the toll.
C24_ScenarioEconomics ==
  \A i \in 1..Len(trips) :
    (trips[i].distance_km = 14000 /\ trips[i].mileage = 56)
      => /\ trips[i].fuel_cost = 23750
         /\ trips[i].toll_cost = 2100
         /\ trips[i].expected_revenue = 42000
         /\ trips[i].expected_profit = 16150
         /\ trips[i].expected_profit
              = trips[i].expected_revenue
                - (trips[i].fuel_cost + trips[i].toll_cost)

\* the plan from Mumbai to Delhi took truck A for 1400 km
C24_Witness ==
  /\ ret = Ret("plan_trip_with_truck", TRUE, "Trip planned")
  /\ Len(trips) = 1
  /\ trips[1].distance_km = 14000
  /\ trips[1].truck_id = "TRK001"
  /\ trips[1].mileage = 56
  /\ trips[1].origin = "Mumbai"
  /\ trips[1].expected_profit = 16150

\* C26: the rotation takes its candidate from the available trucks whose
\* driver is not the last assigned driver when there are any, from all
\* available trucks otherwise, and takes the one whose driver has the fewest
\* active trips, the earliest in the available list among equals; the last
\* assigned driver becomes the driver of that candidate.
C26_RotationCandidate ==
  Selected => last_assigned_driver = trucks[RotationCandidate].driver_phone

\* the candidate was not the first of the available trucks that were not
\* the last driver's: a later one had fewer active trips
C26_Witness ==
  /\ Selected
  /\ ret.msg.last # None
  /\ \E q \in RotationPool :
       /\ Position(q) < Position(RotationCandidate)
       /\ ActiveCount(trucks[q].driver_phone)
            > ActiveCount(trucks[RotationCandidate].driver_phone)
  /\ \E i \in SelTrucks : trucks[i].driver_phone = ret.msg.last
  /\ last_assigned_driver = trucks[RotationCandidate].driver_phone

\* C27: select_best_truck returns the rotation candidate when the quality
\* score of the candidate, without workload penalty and idle bonus, is at
\* least 0.5, and the winner of the fallback phase when it is not; so a
\* truck that is not the fallback winner is returned only with a score of
\* at least 0.5.
C27_GateOnQualityScore ==
  Selected
    => /\ CandidateQuality >= 5000 * FuelDen
            => ret.msg.truck_id = trucks[RotationCandidate].id
       /\ CandidateQuality < 5000 * FuelDen
            => ret.msg.truck_id = trucks[FallbackWinner].id
       /\ (ret.msg.truck_id = trucks[RotationCandidate].id
             /\ RotationCandidate # FallbackWinner)
            => CandidateQuality >= 5000 * FuelDen

\* the candidate passed the gate with a quality score that the penalty for
\* the trips of its driver would have brought under 0.5
C27_Witness ==
  /\ Selected
  /\ CandidateQuality >= 5000 * FuelDen
  /\ Adjusted(RotationCandidate) < 5000 * FuelDen
  /\ ret.msg.truck_id = trucks[RotationCandidate].id

\* the candidate failed the gate
Fallback == Selected /\ CandidateQuality < 5000 * FuelDen

C29_LocationUpdateKeepsStatus ==
  [][(ret'.op = "update_trip_location" /\ ret'.ok)
       => /\ trucks' = trucks
          /\ Len(trips') = Len(trips)
          /\ \A i \in 1..Len(trips) :
               trips[i].status # "in_progress"
                 => /\ trips'[i].status = trips[i].status
                    /\ [trips'[i] EXCEPT !.progress_percent = 0,
                                         !.current_location = None]
                         = [trips[i] EXCEPT !.progress_percent = 0,
                                            !.current_location = None]]_vars

\* the call ret reports took the path of the known cities: the number of
\* stops it planned, from the arguments
StopsPlanned ==
  Max(1, ret.msg.distance_km \div (10 * 24 * ret.msg.mileage_kmpl))

CitiesKnown ==
  IF <<Lower(ret.msg.origin), Lower(ret.msg.destination)>> \in RouteKeys
  THEN route_cities(<<Lower(ret.msg.origin), Lower(ret.msg.destination)>>)
  ELSE route_cities(<<Lower(ret.msg.destination), Lower(ret.msg.origin)>>)

KnownCityPath ==
  /\ ret.op = "plan_fuel_stops"
  /\ ~UnknownPair
  /\ ret.msg.distance_km > 3000
  /\ Len(CitiesKnown) >= StopsPlanned

\* C31 as stated: on the path of the known cities stop i of num_stops has
\* max(20, 100 - i x (80 / (num_stops + 1))) percent of fuel left, the
\* quotient being exact.
C31_ExactQuotient ==
  KnownCityPath
    => /\ Len(ret.msg.stops) = StopsPlanned
       /\ \A i \in 1..Len(ret.msg.stops) :
            \E v \in 0..100 :
              /\ ret.msg.stops[i].estimated_fuel = ToString(v) \o "%"
              /\ v * (StopsPlanned + 1)
                   = Max(20 * (StopsPlanned + 1),
                         100 * (StopsPlanned + 1) - 80 * i)

\* C31, amended: on the path of the known cities stop i of num_stops has
\* max(20, 100 - i x floor(80 / (num_stops + 1))) percent of fuel left: the
\* quotient is cut to a whole number before it is multiplied.
C31_FlooredQuotient ==
  KnownCityPath
    => /\ Len(ret.msg.stops) = StopsPlanned
       /\ \A i \in 1..Len(ret.msg.stops) :
            \E v \in 0..100 :
              /\ ret.msg.stops[i].estimated_fuel = ToString(v) \o "%"
              /\ \E k \in 0..80 :
                   /\ k * (StopsPlanned + 1) <= 80
                   /\ 80 < (k + 1) * (StopsPlanned + 1)
                   /\ v = (IF 100 - i * k >= 20 THEN 100 - i * k ELSE 20)

\* two stops in known cities: 74% and 48%, where the exact quotient gives
\* 73.3 and 46.7
C31_Witness ==
  /\ KnownCityPath
  /\ StopsPlanned = 2
  /\ [i \in 1..Len(ret.msg.stops) |-> ret.msg.stops[i].estimated_fuel]
       = <<"74%", "48%">>

\* C39: for a pair of the table of known cities, a distance over 300 km and
\* a positive mileage, no two stops plan_fuel_stops returns name the same
\* city.
C39_DistinctCities ==
  (ret.op = "plan_fuel_stops" /\ ~UnknownPair /\ ret.msg.distance_km > 3000)
    => \A i, j \in 1..Len(ret.msg.stops) :
         i # j => ret.msg.stops[i].city # ret.msg.stops[j].city

-----------------------------------------------------------------------------
(* compute_confidence and the confidence of a planned trip *)

\* one truck with the load and the fuel on either side of the thresholds
ConfidenceLoads == {0, 8500, 8600, 10000}
ConfidenceFuels == {0, 20, 21, 85}
\* traffic scores in tenths, from 0 to 1
TrafficScores == {0, 5, 9, 10}

ConfidenceInit ==
  /\ trucks \in { << Truck("TRK001", Phone1, "Mumbai", "Good", 56, 10000,
                           load, fuel) >> :
                  load \in ConfidenceLoads, fuel \in ConfidenceFuels }
  /\ trips = <<>>
  /\ loads = <<>>
  /\ last_assigned_driver = None
  /\ now = StartTime
  /\ ret = Ret("none", TRUE, "")
  /\ requests = [q \in Requests |-> Idle]

\* a call of compute_confidence for the first truck: ret holds the traffic
\* score and the result
ComputeConfidence ==
  \E traffic \in TrafficScores :
    /\ ret' = Ret("compute_confidence", TRUE,
                  [traffic |-> traffic,
                   confidence |->
                     compute_confidence(
                       LoadPercent(trucks[1].current_load_kg,
                                   trucks[1].capacity_kg),
                       FuelOk(trucks[1].fuel_percent), Frac(traffic, 10))])
    /\ UNCHANGED <<trucks, trips, loads, last_assigned_driver, now, requests>>

ConfidenceNext == Plan(MaxConfidenceTrips) \/ Accept \/ Complete
                    \/ ComputeConfidence

ConfidenceSpec == ConfidenceInit /\ [][ConfidenceNext]_vars

\* 1.0 x (0.8 if the load is over 85 percent) x (0.6 if the fuel is at
\* most 20 percent) x traffic / 10, in thousandths
ExpectedConfidence(truck, traffic) ==
  (IF truck.current_load_kg * 100 > 85 * truck.capacity_kg THEN 8 ELSE 10)
  * (IF truck.fuel_percent <= 20 * FuelDen THEN 6 ELSE 10) * traffic

\* h hundredths is x thousandths rounded
RoundsTo(x, h) == 10 * h - 5 <= x /\ x <= 10 * h + 5

\* C32: the confidence of a created trip is 1.0 x (0.8 if load_percent >
\* 85) x (0.6 if the fuel_percent of the truck is at most 20) x the traffic
\* factor, rounded to two decimals; for a traffic factor between 0 and 1
\* the result of compute_confidence lies between 0 and 1.
C32_Confidence ==
  [][/\ ret' = Ret("plan_trip_with_truck", TRUE, "Trip planned")
          => \E k \in TruckIdx :
               /\ trucks[k].id = trips'[Len(trips')].truck_id
               /\ RoundsTo(ExpectedConfidence(trucks[k], 9),
                           trips'[Len(trips')].confidence)
               /\ trips'[Len(trips')].confidence \in 0..100
     /\ ret'.op = "compute_confidence"
          => /\ RoundsTo(ExpectedConfidence(trucks[1], ret'.msg.traffic),
                         ret'.msg.confidence)
             /\ ret'.msg.confidence \in 0..100]_vars

\* a trip planned for a truck loaded over 85 percent with 20 percent of
\* fuel: 0.8 x 0.6 x 0.9 = 0.432, stored as 0.43
C32_Witness ==
  /\ ret = Ret("plan_trip_with_truck", TRUE, "Trip planned")
  /\ Len(trips) = 1
  /\ trips[1].truck_current_load_kg = 8600
  /\ trips[1].confidence = 43
  /\ trucks[1].fuel_percent = 20 * FuelDen

-----------------------------------------------------------------------------
(* The invariants of the store *)

\* C33: in every state that plan_trip_with_truck and the operations of the
\* drivers reach, every truck has a status among available, assigned and
\* in_transit and a current_load_kg of at most its capacity_kg.
C33_TruckInvariants ==
  \A k \in TruckIdx :
    /\ trucks[k].status \in {"available", "assigned", "in_transit"}
    /\ trucks[k].current_load_kg <= trucks[k].capacity_kg

\* the part-loaded truck was assigned, went in transit and came back
\* empty while the other truck is assigned
C33_Witness ==
  /\ ret = Ret("complete_trip", TRUE, "Trip completed")
  /\ \E k \in TruckIdx :
       /\ trucks[k].status = "available"
       /\ TwinFleet[k].current_load_kg > 0
       /\ trucks[k].current_load_kg = 0
  /\ \E k \in TruckIdx : trucks[k].status \in {"assigned", "in_transit"}

\* C35: no truck is named by more than one trip that is pending, accepted
\* or in progress.
C35_OneActiveTripPerTruck ==
  \A i, j \in 1..Len(trips) :
    (/\ i # j
     /\ trips[i].status \in {"pending", "accepted", "in_progress"}
     /\ trips[j].status \in {"pending", "accepted", "in_progress"})
      => trips[i].truck_id # trips[j].truck_id

\* C36: the truck of a trip that is in progress is in transit.
C36_InProgressMeansInTransit ==
  \A i \in 1..Len(trips) :
    trips[i].status = "in_progress"
      => \A k \in TruckIdx :
           trucks[k].id = trips[i].truck_id => trucks[k].status = "in_transit"

-----------------------------------------------------------------------------
(* The manager's approvals of several loads *)

ApproveWeights == {5000}

ApproveCreateLoad ==
  /\ Len(loads) < MaxApproveLoads
  /\ \E w \in ApproveWeights, r \in LoadRoutes :
       create_load_request(w, r[1], r[2])
  /\ UNCHANGED requests

ApproveNext ==
  Plan(MaxApproveTrips) \/ ApproveCreateLoad \/ AcceptLoad \/ RejectLoad

ApproveSpec == Init /\ [][ApproveNext]_vars

RECURSIVE ApprovedWeight(_, _)
\* the weight of the loads from position j on that are approved for the trip
ApprovedWeight(trip_id, j) ==
  IF j > Len(loads) THEN 0
  ELSE (IF loads[j].status = "approved" /\ loads[j].trip_id = trip_id
        THEN loads[j].weight_kg ELSE 0)
       + ApprovedWeight(trip_id, j + 1)

\* C38: the loads approved for a trip weigh together at most the
\* available_capacity_kg the trip had when it was created.
C38_ApprovedWithinCapacity ==
  \A i \in 1..Len(trips) :
    ApprovedWeight(trips[i].id, 1)
      <= trips[i].truck_capacity_kg - trips[i].truck_current_load_kg

-----------------------------------------------------------------------------
(* select_best_truck over trucks without a recorded driver phone *)

\* two trucks whose record has no driver_phone, the better fuelled first,
\* and two trucks of two drivers, all in Mumbai
PhonelessFleet ==
  << Truck("TRK001", None, "Mumbai", "Good", 56, 10000, 0, 90),
     Truck("TRK002", None, "Mumbai", "Good", 56, 10000, 0, 90),
     Truck("TRK003", Phone1, "Mumbai", "Good", 56, 10000, 0, 85),
     Truck("TRK004", Phone2, "Mumbai", "Good", 56, 10000, 0, 85) >>

PhonelessInit ==
  /\ trucks = PhonelessFleet
  /\ trips = <<>>
  /\ loads = <<>>
  /\ last_assigned_driver = None
  /\ now = StartTime
  /\ ret = Ret("none", TRUE, "")
  /\ requests = [q \in Requests |-> Idle]

PhonelessNext == SelectTruck \/ SelectPlan \/ Accept \/ Complete

PhonelessSpec == PhonelessInit /\ [][PhonelessNext]_vars

Phoneless(i) == trucks[i].driver_phone \in {None, ""}

\* an active trip that carries no driver phone
PhonelessTripActive ==
  \E t \in 1..Len(trips) :
    /\ trips[t].status \in {"pending", "accepted", "in_progress"}
    /\ trips[t].driver_phone \in {None, ""}

Quality(i) ==
  calculate_truck_score(trucks[i], ret.msg.origin, ret.msg.distance_km)

\* the quality score and the bonus of a truck idle for more than a day
Unpenalised(i) ==
  Quality(i)
  + (IF trucks[i].last_trip_time # 0 /\ now - trucks[i].last_trip_time > 86400
     THEN 1500 * FuelDen ELSE 0)

\* less 0.1 for each active trip of the driver, 0.3 at most, for a truck
\* that has a driver phone
Penalised(i) ==
  Unpenalised(i)
  - (IF Phoneless(i) THEN 0
     ELSE Min(3000, 1000 * ActiveCount(trucks[i].driver_phone)) * FuelDen)

\* C34: a truck without a recorded driver phone counts as having no trip in
\* the rotation, so when every available truck passes the gate the truck
\* returned never stands behind a phone-less truck of the rotation pool; and
\* it carries no penalty in the fallback, so when no available truck passes
\* the gate the truck returned scores, penalty included, no less than the
\* quality score and idle bonus of any phone-less available truck; both
\* whatever trips are active, those of phone-less trucks included.
C34_PhonelessUnburdened ==
  Selected =>
    \A q \in SelTrucks :
      Phoneless(q) =>
        /\ ((\A i \in SelTrucks : Quality(i) >= 5000 * FuelDen)
              /\ q \in RotationPool)
             => Position(ReturnedTruck) <= Position(q)
        /\ (\A i \in SelTrucks : Quality(i) < 5000 * FuelDen)
             => Penalised(ReturnedTruck) >= Unpenalised(q)

\* the rotation returned the phone-less TRK002 ahead of the idle TRK003 of a
\* driver without trips, while the trip of the phone-less TRK001 is active
C34_Witness ==
  /\ Selected
  /\ ret.msg.origin = "Mumbai"
  /\ ret.msg.truck_id = "TRK002"
  /\ {2, 3} \subseteq RotationPool
  /\ ActiveCount(Phone1) = 0
  /\ PhonelessTripActive
  /\ trucks[1].status # "available"

\* the fallback returned the phone-less TRK002 ahead of the idle TRK004 while
\* the trip of the phone-less TRK001 is active
C34_FallbackReached ==
  /\ Selected
  /\ ret.msg.origin = "Delhi"
  /\ ret.msg.truck_id = "TRK002"
  /\ 4 \in SelTrucks
  /\ ActiveCount(Phone2) = 0
  /\ PhonelessTripActive
  /\ trucks[1].status # "available"

-----------------------------------------------------------------------------
(* The drivers keep answering: START and ARRIVED are never withheld for ever *)

\* the manager plans trips from Delhi to Mumbai and the drivers write as in
\* ChatSpec
LiveRoutes == {<<"Delhi", "Mumbai">>}

LivePlan ==
  \E r \in LiveRoutes, d \in RouteDistances :
    /\ Len(trips) < MaxLiveTrips
         \/ \A i \in TruckIdx : trucks[i].status # "available"
    /\ plan_trip_with_truck(r[1], r[2], TRUE, TRUE, d)
    /\ UNCHANGED requests

LiveNext == LivePlan \/ DriverMessage

\* a driver whose START or ARRIVED would change the store sends it in the end
DriversFair ==
  \A p \in Phones : WF_vars(DriverStart(p)) /\ WF_vars(DriverArrived(p))

LiveSpec == Init /\ [][LiveNext]_vars /\ DriversFair

\* the truck of trip i is available and in the list get_available_trucks
\* gives select_best_truck, whatever the origin of the next plan
TruckSelectable(i) ==
  LET k == get_truck_by_id(trips[i].truck_id)
  IN /\ k # 0
     /\ trucks[k].status = "available"
     /\ \A r \in Routes :
          \E p \in 1..Len(get_available_trucks(r[1])) :
            get_available_trucks(r[1])[p] = k

\* C37: when the drivers' START and ARRIVED messages are weakly fair, every
\* trip that plan_trip_with_truck created is completed in the end, with its
\* truck available again and among the trucks a later plan selects from.
C37_TripsComplete ==
  \A i \in 1..MaxLiveTrips :
    [](Len(trips) >= i
         => <>(/\ Len(trips) >= i
               /\ trips[i].status = "completed"
               /\ TruckSelectable(i)))

\* the first trip is completed and the next plan took its truck again
C37_Witness ==
  /\ Len(trips) = 2
  /\ trips[1].status = "completed"
  /\ trips[2].truck_id = trips[1].truck_id
  /\ trips[2].status = "pending"
  /\ ret = Ret("plan_trip_with_truck", TRUE, "Trip planned")

====
